---- MODULE Spec2Model ----
(***************************************************************************)
(* Model of the helixswarm endpoint groups Groups and Reviews              *)
(* (src/helixswarm/endpoints/groups.py, reviews.py).                       *)
(*                                                                         *)
(* Every method is a pure function of the context's api_version, the       *)
(* keyword arguments, the value get_version() would return and the         *)
(* response the transport would give; it yields the outcome of the call    *)
(* together with everything the call asked of the client context.          *)
(***************************************************************************)
EXTENDS Integers, Sequences, FiniteSets, TLC

VARIABLES api_version, pc, call, prev

vars == <<api_version, pc, call, prev>>

(***************************************************************************)
(* Bounds                                                                  *)
(***************************************************************************)
\* api_version ranges over 0..MaxVersion
MaxVersion == 9
\* at most this many optional keyword arguments are supplied in one call
MaxSupplied == 2
\* get_version() reports the versions 1..n for some n up to this bound
MaxServerVersion == 11

(***************************************************************************)
(* Python values.  A value carries its type, so that truth testing and     *)
(* "is not None" can be computed as Python computes them.                  *)
(***************************************************************************)
None == [t |-> "none"]
PyStr(s) == [t |-> "str", v |-> s]
PyInt(n) == [t |-> "int", v |-> n]
PyBool(b) == [t |-> "bool", v |-> b]
StrList(l) == [t |-> "strlist", v |-> l]
IntList(l) == [t |-> "intlist", v |-> l]

\* the values a caller passes for an argument of each annotated type, None apart
Values(type) ==
    CASE type = "str" -> {PyStr(""), PyStr("bob")}
      [] type = "int" -> {PyInt(0), PyInt(5)}
      [] type = "bool" -> {PyBool(FALSE), PyBool(TRUE)}
      [] type = "strlist" -> {StrList(<<>>), StrList(<<"id">>), StrList(<<"id", "name">>)}
      [] type = "intlist" -> {IntList(<<>>), IntList(<<7>>)}

Identifiers == {"dev", "qa"}
ReviewIds == {7, 42}
Changes == {0, 1234}

\* what the transport's _request gives back: a decoded JSON value or a failure
JsonValues == {"{}", "{\"lastSeen\":12}"}
TransportErrors == {"ConnectionError"}
Responses == {[ok |-> TRUE, body |-> j] : j \in JsonValues}
               \cup {[ok |-> FALSE, body |-> e] : e \in TransportErrors}

\* what get_version() gives back: the apiVersions list, as the set of its members
ApiVersionLists == {1..n : n \in (MaxServerVersion - 2)..MaxServerVersion}

\* bug: an empty list counts as true
TruthyEmptyList(x) ==
    CASE x.t = "none" -> FALSE
      [] x.t = "str" -> x.v # ""
      [] x.t = "int" -> x.v # 0
      [] x.t = "bool" -> x.v
      [] x.t \in {"strlist", "intlist"} -> TRUE

\* Python truth value testing, the condition of `if x:`
Truthy(x) ==
    CASE x.t = "none" -> FALSE
      [] x.t = "str" -> x.v # ""
      [] x.t = "int" -> x.v # 0
      [] x.t = "bool" -> x.v
      [] x.t \in {"strlist", "intlist"} -> Len(x.v) > 0

\* `x is not None`
IsNotNone(x) == x.t # "none"

\* int(b) for a bool
int(b) == IF b THEN 1 ELSE 0

Digit(d) == <<"0", "1", "2", "3", "4", "5", "6", "7", "8", "9">>[d + 1]

RECURSIVE str(_)
\* str(n) for a natural number
str(n) == IF n < 10 THEN Digit(n) ELSE str(n \div 10) \o Digit(n % 10)

RECURSIVE Join(_, _)
\* sep.join(l)
Join(sep, l) ==
    IF Len(l) = 0 THEN ""
    ELSE IF Len(l) = 1 THEN l[1]
    ELSE l[1] \o sep \o Join(sep, Tail(l))

\* dict()
EmptyDict == [k \in {} |-> None]

\* d[k] = v
Put(d, k, v) == [x \in DOMAIN d \cup {k} |-> IF x = k THEN v ELSE d[x]]

\* if x: d[k] = v
PutIf(c, d, k, v) == IF c THEN Put(d, k, v) ELSE d

(***************************************************************************)
(* Outcome of a call.  requests is what the call sent to the transport, in *)
(* order, each request with the response the transport gave to it;         *)
(* versions is what its get_version() calls returned, in order.            *)
(***************************************************************************)
Outcome(kind, value, requests, versions) ==
    [outcome |-> kind, value |-> value, requests |-> requests, versions |-> versions]

\* raise SwarmError(...) / raise SwarmCompatibleError(...)
Raise(exc) == Outcome(exc, "", <<>>, <<>>)

\* return self.swarm._request(method, path, <kw>=mapping): the response is
\* returned as it is, a failure of the transport propagates as it is
Request(method, path, kw, mapping, resp) ==
    Outcome(IF resp.ok THEN "return" ELSE "TransportError", resp.body,
            <<[method |-> method, path |-> path, kw |-> kw, mapping |-> mapping,
               response |-> resp]>>,
            <<>>)

\* @minimal_version(version): the guard runs before the body
minimal_version(version, ver, body) ==
    IF ver < version THEN Raise("SwarmCompatibleError") ELSE body

\* self.swarm.get_version(): gives the version metadata, sends nothing itself
get_version(gv) == Outcome("return", gv, <<>>, <<gv>>)

\* what the call has asked of the context in first, then what it does in second
Then(first, second) ==
    [second EXCEPT !.requests = first.requests \o @,
                   !.versions = first.versions \o @]

(***************************************************************************)
(* Groups                                                                  *)
(***************************************************************************)
Groups_get_args == [after |-> "str", limit |-> "int", fields |-> "strlist",
                    keywords |-> "str"]

Groups_get(ver, a, resp) ==
    minimal_version(2, ver,
        LET p1 == PutIf(Truthy(a.after), EmptyDict, "after", a.after)
            p2 == PutIf(Truthy(a.limit), p1, "max", a.limit)
            p3 == PutIf(Truthy(a.fields), p2, "fields", PyStr(Join(",", a.fields.v)))
            p4 == PutIf(Truthy(a.keywords), p3, "keywords", a.keywords)
        IN  Request("GET", "groups", "params", p4, resp))

Groups_get_info_args == [fields |-> "strlist"]

Groups_get_info(ver, identifier, a, resp) ==
    minimal_version(2, ver,
        LET p1 == PutIf(Truthy(a.fields), EmptyDict, "fields",
                        PyStr(Join(",", a.fields.v)))
        IN  Request("GET", "groups/" \o identifier, "params", p1, resp))

Groups_create_args ==
    [users |-> "strlist", owners |-> "strlist", subgroups |-> "strlist",
     name |-> "str", description |-> "str", email_address |-> "str",
     notify_reviews |-> "bool", notify_commits |-> "bool",
     use_mailing_list |-> "bool", max_results |-> "int",
     max_scan_rows |-> "int", max_lock_time |-> "int",
     max_open_files |-> "int", max_memory |-> "int", timeout |-> "int",
     password_timeout |-> "int"]

\* the payload of Groups.create, once the precondition has passed
Groups_create_data(identifier, a) ==
    LET d0 == Put(EmptyDict, "Group", PyStr(identifier))
        d1 == PutIf(Truthy(a.users), d0, "Users", a.users)
        d2 == PutIf(Truthy(a.owners), d1, "Owners", a.owners)
        d3 == PutIf(Truthy(a.subgroups), d2, "Subgroups", a.subgroups)
        d4 == PutIf(Truthy(a.name), d3, "config[name]", a.name)
        d5 == PutIf(Truthy(a.description), d4, "config[description]", a.description)
        d6 == PutIf(Truthy(a.email_address), d5, "config[emailAddress]",
                    a.email_address)
        d7 == PutIf(Truthy(a.notify_reviews), d6, "config[emailFlags][reviews]",
                    a.notify_reviews)
        d8 == PutIf(Truthy(a.notify_commits), d7, "config[emailFlags][commits]",
                    a.notify_commits)
        d9 == PutIf(Truthy(a.use_mailing_list), d8, "config[useMailingList]",
                    a.use_mailing_list)
        d10 == PutIf(Truthy(a.max_results), d9, "MaxResults", a.max_results)
        d11 == PutIf(Truthy(a.max_scan_rows), d10, "MaxScanRows", a.max_scan_rows)
        d12 == PutIf(Truthy(a.max_lock_time), d11, "MaxLockTime", a.max_lock_time)
        d13 == PutIf(Truthy(a.max_open_files), d12, "MaxOpenFiles", a.max_open_files)
        d14 == PutIf(Truthy(a.max_memory), d13, "MaxMemory", a.max_memory)
        d15 == PutIf(Truthy(a.timeout), d14, "Timeout", a.timeout)
        d16 == PutIf(Truthy(a.password_timeout), d15, "PasswordTimeout",
                     a.password_timeout)
    IN  d16

\* bug: the encodings are swapped
Groups_create_send_swapped(data, gv, resp) ==
    LET version == get_version(gv)
    IN  Then(version,
             IF 11 \in version.value
             THEN Request("POST", "groups", "data", data, resp)
             ELSE Request("POST", "groups", "json", data, resp))

\* bug: after a JSON request that failed, the next call falls back to a form body
Groups_create_send_fallback(data, gv, resp) ==
    LET version == get_version(gv)
        failed == /\ prev.op = "Groups.create"
                  /\ prev.requests # <<>>
                  /\ prev.requests[1].kw = "json"
                  /\ ~prev.requests[1].response.ok
    IN  Then(version,
             IF 11 \in version.value /\ ~failed
             THEN Request("POST", "groups", "json", data, resp)
             ELSE Request("POST", "groups", "data", data, resp))

\* version = self.swarm.get_version(), then the POST in the encoding it selects
Groups_create_send(data, gv, resp) ==
    LET version == get_version(gv)
    IN  Then(version,
             IF 11 \in version.value
             THEN Request("POST", "groups", "json", data, resp)
             ELSE Request("POST", "groups", "data", data, resp))

\* bug: the precondition is tested after the version metadata is fetched
Groups_create_late_check(ver, identifier, a, gv, resp) ==
    minimal_version(2, ver,
        IF ~(Truthy(a.users) \/ Truthy(a.owners) \/ Truthy(a.subgroups))
        THEN Then(get_version(gv), Raise("SwarmError"))
        ELSE Groups_create_send(Groups_create_data(identifier, a), gv, resp))

Groups_create(ver, identifier, a, gv, resp) ==
    minimal_version(2, ver,
        IF ~(Truthy(a.users) \/ Truthy(a.owners) \/ Truthy(a.subgroups))
        THEN Raise("SwarmError")
        ELSE Groups_create_send(Groups_create_data(identifier, a), gv, resp))

Groups_edit_args ==
    [users |-> "strlist", owners |-> "strlist", subgroups |-> "strlist",
     name |-> "str", description |-> "str", email_address |-> "str",
     notify_reviews |-> "bool", notify_commits |-> "bool",
     use_mailing_list |-> "bool"]

Groups_edit(ver, identifier, a, resp) ==
    minimal_version(2, ver,
        LET d1 == PutIf(Truthy(a.users), EmptyDict, "Users", a.users)
            d2 == PutIf(Truthy(a.owners), d1, "Owners", a.owners)
            d3 == PutIf(Truthy(a.subgroups), d2, "Subgroups", a.subgroups)
            d4 == PutIf(Truthy(a.name), d3, "config[name]", a.name)
            d5 == PutIf(Truthy(a.description), d4, "config[description]",
                        a.description)
            d6 == PutIf(Truthy(a.email_address), d5, "config[emailAddress]",
                        a.email_address)
            d7 == PutIf(Truthy(a.notify_reviews), d6,
                        "config[emailFlags][reviews]", a.notify_reviews)
            d8 == PutIf(Truthy(a.notify_commits), d7,
                        "config[emailFlags][commits]", a.notify_commits)
            d9 == PutIf(Truthy(a.use_mailing_list), d8, "config[useMailingList]",
                        a.use_mailing_list)
        IN  Request("PATCH", "groups/" \o identifier, "data", d9, resp))

\* bug: the version guard is missing
Groups_delete_unguarded(ver, identifier, resp) ==
    Request("DELETE", "groups/" \o identifier, "none", EmptyDict, resp)

\* no params, data or json keyword: the request carries no mapping
Groups_delete(ver, identifier, resp) ==
    minimal_version(2, ver,
        Request("DELETE", "groups/" \o identifier, "none", EmptyDict, resp))

(***************************************************************************)
(* Reviews                                                                 *)
(***************************************************************************)
Reviews_get_args ==
    [after |-> "int", limit |-> "int", fields |-> "strlist",
     authors |-> "strlist", changes |-> "intlist", has_reviewers |-> "bool",
     ids |-> "intlist", keywords |-> "str", participants |-> "strlist",
     projects |-> "strlist", states |-> "strlist", passes_tests |-> "bool",
     not_updated_since |-> "str", has_voted |-> "str", my_comments |-> "bool"]

\* bug: a filter set to False is dropped like any other false value
BoolParamTruthy(d, k, x) ==
    IF Truthy(x) THEN Put(d, k, PyStr(str(int(x.v)))) ELSE d

\* if x is not None: d[k] = str(int(x))
BoolParam(d, k, x) ==
    IF IsNotNone(x) THEN Put(d, k, PyStr(str(int(x.v)))) ELSE d

\* bug: the author guard compares with the wrong version
Reviews_get_author_guard_off(ver, a) == Truthy(a.authors) /\ ver < 1

\* the raise inside `if authors:`
Reviews_get_author_guard(ver, a) == Truthy(a.authors) /\ ver < 2

Reviews_get(ver, a, resp) ==
    LET p1 == PutIf(Truthy(a.after), EmptyDict, "after", a.after)
        p2 == PutIf(Truthy(a.limit), p1, "max", a.limit)
        p3 == PutIf(Truthy(a.fields), p2, "fields", PyStr(Join(",", a.fields.v)))
        p4 == PutIf(Truthy(a.authors), p3, "author", a.authors)
    IN  IF Reviews_get_author_guard(ver, a)
        THEN Raise("SwarmCompatibleError")
        ELSE
        LET p5 == PutIf(Truthy(a.changes), p4, "change", a.changes)
            p6 == BoolParam(p5, "hasReviewers", a.has_reviewers)
            p7 == PutIf(Truthy(a.ids), p6, "ids", a.ids)
            p8 == PutIf(Truthy(a.keywords), p7, "keywords", a.keywords)
            p9 == PutIf(Truthy(a.participants), p8, "participants", a.participants)
            p10 == PutIf(Truthy(a.projects), p9, "project", a.projects)
            p11 == PutIf(Truthy(a.states), p10, "state", a.states)
            p12 == BoolParam(p11, "passesTests", a.passes_tests)
            p13 == PutIf(Truthy(a.not_updated_since), p12, "notUpdatedSince",
                         a.not_updated_since)
            p14 == PutIf(Truthy(a.has_voted), p13, "hasVoted", a.has_voted)
            p15 == BoolParam(p14, "myComments", a.my_comments)
        IN  Request("GET", "reviews", "params", p15, resp)

Reviews_get_info_args == [fields |-> "strlist"]

\* bug: the response of the call before is kept and given again
Reviews_get_info_cached(ver, review_id, a, resp) ==
    IF prev.op = "Reviews.get_info" /\ prev.outcome = "return"
    THEN Outcome("return", prev.value, <<>>, <<>>)
    ELSE LET p1 == PutIf(Truthy(a.fields), EmptyDict, "fields",
                         PyStr(Join(",", a.fields.v)))
         IN  Request("GET", "reviews/" \o str(review_id), "params", p1, resp)

Reviews_get_info(ver, review_id, a, resp) ==
    LET p1 == PutIf(Truthy(a.fields), EmptyDict, "fields",
                    PyStr(Join(",", a.fields.v)))
    IN  Request("GET", "reviews/" \o str(review_id), "params", p1, resp)

Reviews_get_transitions_args == [up_voters |-> "str"]

Reviews_get_transitions(ver, review_id, a, resp) ==
    IF ver < 9
    THEN Raise("SwarmCompatibleError")
    ELSE LET p1 == PutIf(Truthy(a.up_voters), EmptyDict, "upVoters", a.up_voters)
         IN  Request("GET", "reviews/" \o str(review_id) \o "/transitions",
                     "params", p1, resp)

Reviews_create_args ==
    [description |-> "str", reviewers |-> "strlist",
     required_reviewers |-> "strlist", reviewer_groups |-> "strlist"]

\* bug: the reviewer_groups guard admits version 6
Reviews_create_v6(ver, change, a, resp) ==
    LET d0 == Put(EmptyDict, "change", PyInt(change))
        d1 == PutIf(Truthy(a.description), d0, "description", a.description)
        d2 == PutIf(Truthy(a.reviewers), d1, "reviewers", a.reviewers)
        d3 == PutIf(Truthy(a.required_reviewers), d2, "requiredReviewers",
                    a.required_reviewers)
    IN  IF Truthy(a.required_reviewers) /\ ver = 1
        THEN Raise("SwarmCompatibleError")
        ELSE
        LET d4 == PutIf(Truthy(a.reviewer_groups), d3, "reviewerGroups",
                        a.reviewer_groups)
        IN  IF Truthy(a.reviewer_groups) /\ ver < 6
            THEN Raise("SwarmCompatibleError")
            ELSE Request("POST", "reviews", "data", d4, resp)

\* bug: the request is sent before the reviewer_groups guard is tested
Reviews_create_send_first(ver, change, a, resp) ==
    LET d0 == Put(EmptyDict, "change", PyInt(change))
        d1 == PutIf(Truthy(a.description), d0, "description", a.description)
        d2 == PutIf(Truthy(a.reviewers), d1, "reviewers", a.reviewers)
        d3 == PutIf(Truthy(a.required_reviewers), d2, "requiredReviewers",
                    a.required_reviewers)
    IN  IF Truthy(a.required_reviewers) /\ ver = 1
        THEN Raise("SwarmCompatibleError")
        ELSE
        LET d4 == PutIf(Truthy(a.reviewer_groups), d3, "reviewerGroups",
                        a.reviewer_groups)
            sent == Request("POST", "reviews", "data", d4, resp)
        IN  IF Truthy(a.reviewer_groups) /\ ver < 7 /\ resp.ok
            THEN [sent EXCEPT !.outcome = "SwarmCompatibleError", !.value = ""]
            ELSE sent

Reviews_create(ver, change, a, resp) ==
    LET d0 == Put(EmptyDict, "change", PyInt(change))
        d1 == PutIf(Truthy(a.description), d0, "description", a.description)
        d2 == PutIf(Truthy(a.reviewers), d1, "reviewers", a.reviewers)
        d3 == PutIf(Truthy(a.required_reviewers), d2, "requiredReviewers",
                    a.required_reviewers)
    IN  IF Truthy(a.required_reviewers) /\ ver = 1
        THEN Raise("SwarmCompatibleError")
        ELSE
        LET d4 == PutIf(Truthy(a.reviewer_groups), d3, "reviewerGroups",
                        a.reviewer_groups)
        IN  IF Truthy(a.reviewer_groups) /\ ver < 7
            THEN Raise("SwarmCompatibleError")
            ELSE Request("POST", "reviews", "data", d4, resp)

\* bug: the guard of archive is off by one
Reviews_archive_v5(ver, not_updated_since, description, resp) ==
    IF ver < 5
    THEN Raise("SwarmCompatibleError")
    ELSE LET data == [notUpdatedSince |-> PyStr(not_updated_since),
                      description |-> PyStr(description)]
         IN  Request("POST", "reviews/archive", "data", data, resp)

Reviews_archive(ver, not_updated_since, description, resp) ==
    IF ver < 6
    THEN Raise("SwarmCompatibleError")
    ELSE LET data == [notUpdatedSince |-> PyStr(not_updated_since),
                      description |-> PyStr(description)]
         IN  Request("POST", "reviews/archive", "data", data, resp)

Reviews_cleanup_args == [reopen |-> "bool"]

\* bug: a failure of the transport is swallowed and an empty value returned
Reviews_cleanup_swallow(ver, review_id, a, resp) ==
    IF ver < 6
    THEN Raise("SwarmCompatibleError")
    ELSE LET d1 == PutIf(Truthy(a.reopen), EmptyDict, "reopen", a.reopen)
             sent == Request("POST", "reviews/" \o str(review_id) \o "/cleanup",
                             "data", d1, resp)
         IN  IF resp.ok THEN sent
             ELSE [sent EXCEPT !.outcome = "return", !.value = "{}"]

Reviews_cleanup(ver, review_id, a, resp) ==
    IF ver < 6
    THEN Raise("SwarmCompatibleError")
    ELSE LET d1 == PutIf(Truthy(a.reopen), EmptyDict, "reopen", a.reopen)
         IN  Request("POST", "reviews/" \o str(review_id) \o "/cleanup",
                     "data", d1, resp)

(***************************************************************************)
(* The caller.  It makes one call at a time: the call runs to its end      *)
(* (return or raise), the caller takes the outcome, and is ready again.    *)
(* It may also keep the outcome in prev and make the same call once more.  *)
(***************************************************************************)
RECURSIVE Assign(_, _)
\* the ways to give each argument of S a value of its type
Assign(S, types) ==
    IF S = {} THEN {EmptyDict}
    ELSE LET arg == CHOOSE x \in S : TRUE
         IN  {Put(f, arg, v) : f \in Assign(S \ {arg}, types), v \in Values(types[arg])}

\* the keyword arguments of a call: None wherever the caller supplies nothing
Kwargs(types) ==
    {[arg \in DOMAIN types |-> IF arg \in DOMAIN f THEN f[arg] ELSE None] :
        f \in UNION {Assign(S, types) :
                        S \in {T \in SUBSET DOMAIN types : Cardinality(T) <= MaxSupplied}}}

NoCall ==
    [op |-> "none", pos |-> EmptyDict, kwargs |-> EmptyDict, outcome |-> "none",
     value |-> "", requests |-> <<>>, versions |-> <<>>]

Called(op, pos, kwargs, o) ==
    [op |-> op, pos |-> pos, kwargs |-> kwargs, outcome |-> o.outcome,
     value |-> o.value, requests |-> o.requests, versions |-> o.versions]

\* the method op applied to its positional and keyword arguments
Apply(op, ver, pos, a, gv, resp) ==
    CASE op = "Groups.get" -> Groups_get(ver, a, resp)
      [] op = "Groups.get_info" -> Groups_get_info(ver, pos.identifier, a, resp)
      [] op = "Groups.create" -> Groups_create(ver, pos.identifier, a, gv, resp)
      [] op = "Groups.edit" -> Groups_edit(ver, pos.identifier, a, resp)
      [] op = "Groups.delete" -> Groups_delete(ver, pos.identifier, resp)
      [] op = "Reviews.get" -> Reviews_get(ver, a, resp)
      [] op = "Reviews.get_info" -> Reviews_get_info(ver, pos.review_id, a, resp)
      [] op = "Reviews.get_transitions" ->
             Reviews_get_transitions(ver, pos.review_id, a, resp)
      [] op = "Reviews.create" -> Reviews_create(ver, pos.change, a, resp)
      [] op = "Reviews.archive" ->
             Reviews_archive(ver, pos.not_updated_since, pos.description, resp)
      [] op = "Reviews.cleanup" -> Reviews_cleanup(ver, pos.review_id, a, resp)

Init ==
    /\ api_version \in 0..MaxVersion
    /\ pc = "ready"
    /\ call = NoCall
    /\ prev = NoCall

GroupsGet ==
    /\ pc = "ready"
    /\ \E a \in Kwargs(Groups_get_args), resp \in Responses :
          call' = Called("Groups.get", EmptyDict, a, Groups_get(api_version, a, resp))
    /\ pc' = "done"
    /\ UNCHANGED <<api_version, prev>>

GroupsGetInfo ==
    /\ pc = "ready"
    /\ \E identifier \in Identifiers, a \in Kwargs(Groups_get_info_args),
          resp \in Responses :
          call' = Called("Groups.get_info", [identifier |-> identifier], a,
                         Groups_get_info(api_version, identifier, a, resp))
    /\ pc' = "done"
    /\ UNCHANGED <<api_version, prev>>

GroupsCreate ==
    /\ pc = "ready"
    /\ \E identifier \in Identifiers, a \in Kwargs(Groups_create_args),
          gv \in ApiVersionLists, resp \in Responses :
          call' = Called("Groups.create", [identifier |-> identifier], a,
                         Groups_create(api_version, identifier, a, gv, resp))
    /\ pc' = "done"
    /\ UNCHANGED <<api_version, prev>>

GroupsEdit ==
    /\ pc = "ready"
    /\ \E identifier \in Identifiers, a \in Kwargs(Groups_edit_args),
          resp \in Responses :
          call' = Called("Groups.edit", [identifier |-> identifier], a,
                         Groups_edit(api_version, identifier, a, resp))
    /\ pc' = "done"
    /\ UNCHANGED <<api_version, prev>>

GroupsDelete ==
    /\ pc = "ready"
    /\ \E identifier \in Identifiers, resp \in Responses :
          call' = Called("Groups.delete", [identifier |-> identifier], EmptyDict,
                         Groups_delete(api_version, identifier, resp))
    /\ pc' = "done"
    /\ UNCHANGED <<api_version, prev>>

ReviewsGet ==
    /\ pc = "ready"
    /\ \E a \in Kwargs(Reviews_get_args), resp \in Responses :
          call' = Called("Reviews.get", EmptyDict, a, Reviews_get(api_version, a, resp))
    /\ pc' = "done"
    /\ UNCHANGED <<api_version, prev>>

ReviewsGetInfo ==
    /\ pc = "ready"
    /\ \E review_id \in ReviewIds, a \in Kwargs(Reviews_get_info_args),
          resp \in Responses :
          call' = Called("Reviews.get_info", [review_id |-> review_id], a,
                         Reviews_get_info(api_version, review_id, a, resp))
    /\ pc' = "done"
    /\ UNCHANGED <<api_version, prev>>

ReviewsGetTransitions ==
    /\ pc = "ready"
    /\ \E review_id \in ReviewIds, a \in Kwargs(Reviews_get_transitions_args),
          resp \in Responses :
          call' = Called("Reviews.get_transitions", [review_id |-> review_id], a,
                         Reviews_get_transitions(api_version, review_id, a, resp))
    /\ pc' = "done"
    /\ UNCHANGED <<api_version, prev>>

ReviewsCreate ==
    /\ pc = "ready"
    /\ \E change \in Changes, a \in Kwargs(Reviews_create_args), resp \in Responses :
          call' = Called("Reviews.create", [change |-> change], a,
                         Reviews_create(api_version, change, a, resp))
    /\ pc' = "done"
    /\ UNCHANGED <<api_version, prev>>

ReviewsArchive ==
    /\ pc = "ready"
    /\ \E not_updated_since \in {"2017-01-01"}, description \in {"", "stale"},
          resp \in Responses :
          call' = Called("Reviews.archive",
                         [not_updated_since |-> not_updated_since,
                          description |-> description],
                         EmptyDict,
                         Reviews_archive(api_version, not_updated_since,
                                         description, resp))
    /\ pc' = "done"
    /\ UNCHANGED <<api_version, prev>>

ReviewsCleanup ==
    /\ pc = "ready"
    /\ \E review_id \in ReviewIds, a \in Kwargs(Reviews_cleanup_args),
          resp \in Responses :
          call' = Called("Reviews.cleanup", [review_id |-> review_id], a,
                         Reviews_cleanup(api_version, review_id, a, resp))
    /\ pc' = "done"
    /\ UNCHANGED <<api_version, prev>>

\* the caller has the outcome; nothing of the call is kept
EndCall ==
    /\ pc = "done"
    /\ pc' = "ready"
    /\ call' = NoCall
    /\ prev' = NoCall
    /\ UNCHANGED api_version

\* the caller keeps the outcome of its first call and is about to call again
Repeat ==
    /\ pc = "done"
    /\ prev = NoCall
    /\ pc' = "again"
    /\ prev' = call
    /\ call' = NoCall
    /\ UNCHANGED api_version

\* the same method with the same arguments, on the same objects; the context
\* and the transport answer as they do at the time of this call
CallAgain ==
    /\ pc = "again"
    /\ \E gv \in ApiVersionLists, resp \in Responses :
          call' = Called(prev.op, prev.pos, prev.kwargs,
                         Apply(prev.op, api_version, prev.pos, prev.kwargs, gv, resp))
    /\ pc' = "done"
    /\ UNCHANGED <<api_version, prev>>

Next ==
    \/ GroupsGet
    \/ GroupsGetInfo
    \/ GroupsCreate
    \/ GroupsEdit
    \/ GroupsDelete
    \/ ReviewsGet
    \/ ReviewsGetInfo
    \/ ReviewsGetTransitions
    \/ ReviewsCreate
    \/ ReviewsArchive
    \/ ReviewsCleanup
    \/ EndCall
    \/ Repeat
    \/ CallAgain

Spec == Init /\ [][Next]_vars

TypeOK ==
    /\ api_version \in 0..MaxVersion
    /\ pc \in {"ready", "done", "again"}
    /\ (pc \in {"ready", "again"}) = (call = NoCall)
    /\ pc = "ready" => prev = NoCall
    /\ pc = "again" => prev # NoCall
    /\ call.outcome \in {"none", "return", "SwarmError", "SwarmCompatibleError",
                         "TransportError"}

(***************************************************************************)
(* Vocabulary of the properties                                            *)
(***************************************************************************)
GroupsOps == {"Groups.get", "Groups.get_info", "Groups.create", "Groups.edit",
              "Groups.delete"}

Done(op) == pc = "done" /\ call.op = op

\* the argument was left out or given as null
Unset(x) == x = None

\* the argument is an empty list or an empty string
Empty(x) ==
    \/ x.t \in {"strlist", "intlist"} /\ x.v = <<>>
    \/ x.t = "str" /\ x.v = ""

\* the caller supplied a non-null, non-empty value
Supplied(x) == ~Unset(x) /\ ~Empty(x)

\* the call ended in one of the two errors this code raises
RaisedHere == call.outcome \in {"SwarmError", "SwarmCompatibleError"}

\* the call failed the version check and asked nothing of the transport
Incompatible == call.outcome = "SwarmCompatibleError" /\ call.requests = <<>>

\* the one request of the call
TheRequest == call.requests[1]

(***************************************************************************)
(* C1: every Groups operation called with api_version below 2 fails with a *)
(* SwarmCompatibleError and sends nothing, whatever its arguments; with    *)
(* api_version 2 or more no Groups operation fails with that error.        *)
(***************************************************************************)
C1_GroupsMinimalVersion ==
    (pc = "done" /\ call.op \in GroupsOps) =>
        IF api_version < 2
        THEN Incompatible /\ call.versions = <<>>
        ELSE call.outcome # "SwarmCompatibleError"

\* Groups.create below version 2 with arguments that also break the precondition
C1_Witness ==
    /\ Done("Groups.create")
    /\ api_version < 2
    /\ Unset(call.kwargs.users) /\ Empty(call.kwargs.owners)
    /\ Unset(call.kwargs.subgroups)
    /\ Incompatible

(***************************************************************************)
(* C2: Groups.create with api_version >= 2 and users, owners and subgroups *)
(* each unset or empty raises SwarmError having called neither             *)
(* get_version() nor the transport; with one of the three non-empty it     *)
(* does not raise SwarmError.                                              *)
(***************************************************************************)
C2_CreatePrecondition ==
    (Done("Groups.create") /\ api_version >= 2) =>
        IF \A arg \in {"users", "owners", "subgroups"} :
               Unset(call.kwargs[arg]) \/ Empty(call.kwargs[arg])
        THEN call.outcome = "SwarmError" /\ call.requests = <<>>
             /\ call.versions = <<>>
        ELSE call.outcome # "SwarmError"

C2_Witness ==
    /\ Done("Groups.create")
    /\ api_version >= 2
    /\ Empty(call.kwargs.users) /\ Empty(call.kwargs.owners)
    /\ Unset(call.kwargs.subgroups)
    /\ call.outcome = "SwarmError"

(***************************************************************************)
(* C3: a Groups.create call that passes its guards sends exactly one       *)
(* request, a POST to 'groups', as a JSON body iff the apiVersions that    *)
(* get_version() returned contain 11 and as a form body otherwise; the     *)
(* payload is the one built from the arguments in either case.             *)
(***************************************************************************)
C3_CreateEncoding ==
    (Done("Groups.create") /\ ~RaisedHere) =>
        /\ Len(call.requests) = 1
        /\ Len(call.versions) = 1
        /\ TheRequest.method = "POST"
        /\ TheRequest.path = "groups"
        /\ TheRequest.kw = (IF 11 \in call.versions[1] THEN "json" ELSE "data")
        /\ TheRequest.mapping = Groups_create_data(call.pos.identifier, call.kwargs)

C3_Witness ==
    /\ Done("Groups.create")
    /\ ~RaisedHere
    /\ 11 \in call.versions[1]
    /\ TheRequest.kw = "json"
    /\ "Owners" \in DOMAIN TheRequest.mapping

(***************************************************************************)
(* C4: in Reviews.get each of has_reviewers, passes_tests and my_comments, *)
(* whatever the other arguments are, is absent from the query parameters   *)
(* when unset, "0" when False and "1" when True.                           *)
(***************************************************************************)
TriState ==
    [has_reviewers |-> "hasReviewers", passes_tests |-> "passesTests",
     my_comments |-> "myComments"]

C4_TriStateFilters ==
    (Done("Reviews.get") /\ call.requests # <<>>) =>
        \A arg \in DOMAIN TriState :
            LET x == call.kwargs[arg]
                key == TriState[arg]
                params == TheRequest.mapping
            IN  /\ Unset(x) => key \notin DOMAIN params
                /\ x = PyBool(FALSE) =>
                       key \in DOMAIN params /\ params[key] = PyStr("0")
                /\ x = PyBool(TRUE) =>
                       key \in DOMAIN params /\ params[key] = PyStr("1")

C4_Witness ==
    /\ Done("Reviews.get")
    /\ call.requests # <<>>
    /\ call.kwargs.passes_tests = PyBool(FALSE)
    /\ call.kwargs.my_comments = PyBool(TRUE)
    /\ TheRequest.mapping["passesTests"] = PyStr("0")
    /\ TheRequest.mapping["myComments"] = PyStr("1")
    /\ "hasReviewers" \notin DOMAIN TheRequest.mapping

(***************************************************************************)
(* The wire key of every optional argument of every method.                *)
(***************************************************************************)
WireKey ==
    [Groups_get |->
        [after |-> "after", limit |-> "max", fields |-> "fields",
         keywords |-> "keywords"],
     Groups_get_info |-> [fields |-> "fields"],
     Groups_create |->
        [users |-> "Users", owners |-> "Owners", subgroups |-> "Subgroups",
         name |-> "config[name]", description |-> "config[description]",
         email_address |-> "config[emailAddress]",
         notify_reviews |-> "config[emailFlags][reviews]",
         notify_commits |-> "config[emailFlags][commits]",
         use_mailing_list |-> "config[useMailingList]",
         max_results |-> "MaxResults", max_scan_rows |-> "MaxScanRows",
         max_lock_time |-> "MaxLockTime", max_open_files |-> "MaxOpenFiles",
         max_memory |-> "MaxMemory", timeout |-> "Timeout",
         password_timeout |-> "PasswordTimeout"],
     Groups_edit |->
        [users |-> "Users", owners |-> "Owners", subgroups |-> "Subgroups",
         name |-> "config[name]", description |-> "config[description]",
         email_address |-> "config[emailAddress]",
         notify_reviews |-> "config[emailFlags][reviews]",
         notify_commits |-> "config[emailFlags][commits]",
         use_mailing_list |-> "config[useMailingList]"],
     Groups_delete |-> EmptyDict,
     Reviews_get |->
        [after |-> "after", limit |-> "max", fields |-> "fields",
         authors |-> "author", changes |-> "change",
         has_reviewers |-> "hasReviewers", ids |-> "ids",
         keywords |-> "keywords", participants |-> "participants",
         projects |-> "project", states |-> "state",
         passes_tests |-> "passesTests",
         not_updated_since |-> "notUpdatedSince", has_voted |-> "hasVoted",
         my_comments |-> "myComments"],
     Reviews_get_info |-> [fields |-> "fields"],
     Reviews_get_transitions |-> [up_voters |-> "upVoters"],
     Reviews_create |->
        [description |-> "description", reviewers |-> "reviewers",
         required_reviewers |-> "requiredReviewers",
         reviewer_groups |-> "reviewerGroups"],
     Reviews_archive |-> EmptyDict,
     Reviews_cleanup |-> [reopen |-> "reopen"]]

OpKey ==
    [x \in {"Groups.get", "Groups.get_info", "Groups.create", "Groups.edit",
            "Groups.delete", "Reviews.get", "Reviews.get_info",
            "Reviews.get_transitions", "Reviews.create", "Reviews.archive",
            "Reviews.cleanup"} |->
        CASE x = "Groups.get" -> "Groups_get"
          [] x = "Groups.get_info" -> "Groups_get_info"
          [] x = "Groups.create" -> "Groups_create"
          [] x = "Groups.edit" -> "Groups_edit"
          [] x = "Groups.delete" -> "Groups_delete"
          [] x = "Reviews.get" -> "Reviews_get"
          [] x = "Reviews.get_info" -> "Reviews_get_info"
          [] x = "Reviews.get_transitions" -> "Reviews_get_transitions"
          [] x = "Reviews.create" -> "Reviews_create"
          [] x = "Reviews.archive" -> "Reviews_archive"
          [] x = "Reviews.cleanup" -> "Reviews_cleanup"]

\* the wire keys of the current call, by argument
Keys == WireKey[OpKey[call.op]]

\* a value that is neither null, nor empty, nor False, nor 0
TrueValue(x) ==
    /\ Supplied(x)
    /\ x # PyBool(FALSE)
    /\ x # PyInt(0)

(***************************************************************************)
(* C5 as stated: in every request, the wire key of an optional argument is *)
(* in the mapping iff the caller supplied a non-null, non-empty value,     *)
(* over null, empty, False, 0 and non-empty/true values.                   *)
(***************************************************************************)
C5_KeyIffSupplied ==
    (pc = "done" /\ call.requests # <<>>) =>
        \A arg \in DOMAIN call.kwargs :
            Keys[arg] \in DOMAIN TheRequest.mapping <=> Supplied(call.kwargs[arg])

(***************************************************************************)
(* C5 as amended: the wire key of an optional argument is in the mapping   *)
(* iff the value is neither null, empty, False nor 0; for the three        *)
(* tri-state filters of Reviews.get, iff the value is not null.  An unset  *)
(* or empty argument never puts its key in the mapping.                    *)
(***************************************************************************)
C5_KeyIffTrueValue ==
    (pc = "done" /\ call.requests # <<>>) =>
        \A arg \in DOMAIN call.kwargs :
            LET x == call.kwargs[arg]
                present == Keys[arg] \in DOMAIN TheRequest.mapping
            IN  /\ present <=>
                      IF call.op = "Reviews.get" /\ arg \in DOMAIN TriState
                      THEN ~Unset(x)
                      ELSE TrueValue(x)
                /\ (Unset(x) \/ Empty(x)) => ~present

C5_Witness ==
    /\ Done("Groups.create")
    /\ call.requests # <<>>
    /\ call.kwargs.max_results = PyInt(0)
    /\ Supplied(call.kwargs.users)
    /\ "MaxResults" \notin DOMAIN TheRequest.mapping
    /\ "Users" \in DOMAIN TheRequest.mapping

(***************************************************************************)
(* C6: Reviews.create fails with SwarmCompatibleError, sending nothing,    *)
(* exactly when required_reviewers is non-empty at version 1 or            *)
(* reviewer_groups is non-empty below version 7; otherwise it sends one    *)
(* POST to 'reviews' whose payload has 'change', and has                   *)
(* 'requiredReviewers' / 'reviewerGroups' exactly when supplied non-empty. *)
(***************************************************************************)
C6_ReviewsCreate ==
    Done("Reviews.create") =>
        LET rr == call.kwargs.required_reviewers
            rg == call.kwargs.reviewer_groups
        IN  IF \/ Supplied(rr) /\ api_version = 1
               \/ Supplied(rg) /\ api_version < 7
            THEN Incompatible
            ELSE /\ ~RaisedHere
                 /\ Len(call.requests) = 1
                 /\ TheRequest.method = "POST"
                 /\ TheRequest.path = "reviews"
                 /\ "change" \in DOMAIN TheRequest.mapping
                 /\ TheRequest.mapping["change"] = PyInt(call.pos.change)
                 /\ "requiredReviewers" \in DOMAIN TheRequest.mapping
                        <=> Supplied(rr)
                 /\ "reviewerGroups" \in DOMAIN TheRequest.mapping
                        <=> Supplied(rg)

C6_Witness ==
    /\ Done("Reviews.create")
    /\ api_version = 7
    /\ Supplied(call.kwargs.reviewer_groups)
    /\ call.outcome = "return"
    /\ "reviewerGroups" \in DOMAIN TheRequest.mapping

(***************************************************************************)
(* C7: get_transitions (9), archive (6) and cleanup (6) fail with          *)
(* SwarmCompatibleError, sending nothing, iff api_version is below the     *)
(* minimum; otherwise each sends its request: get_transitions with         *)
(* up_voters="bob" sends upVoters="bob", archive posts to                  *)
(* 'reviews/archive'.                                                      *)
(***************************************************************************)
MinimumVersion ==
    [Reviews_get_transitions |-> 9, Reviews_archive |-> 6, Reviews_cleanup |-> 6]

C7_OperationMinimum ==
    (pc = "done" /\ OpKey[call.op] \in DOMAIN MinimumVersion) =>
        IF api_version < MinimumVersion[OpKey[call.op]]
        THEN Incompatible
        ELSE /\ ~RaisedHere
             /\ Len(call.requests) = 1
             /\ (call.op = "Reviews.get_transitions"
                 /\ call.kwargs.up_voters = PyStr("bob")) =>
                    /\ TheRequest.kw = "params"
                    /\ "upVoters" \in DOMAIN TheRequest.mapping
                    /\ TheRequest.mapping["upVoters"] = PyStr("bob")
             /\ call.op = "Reviews.archive" =>
                    /\ TheRequest.method = "POST"
                    /\ TheRequest.path = "reviews/archive"

C7_Witness ==
    /\ Done("Reviews.get_transitions")
    /\ api_version = 9
    /\ call.kwargs.up_voters = PyStr("bob")
    /\ TheRequest.mapping["upVoters"] = PyStr("bob")

(***************************************************************************)
(* C8: Reviews.get fails with SwarmCompatibleError, sending nothing, iff   *)
(* authors is non-empty and api_version is below 2; with authors unset or  *)
(* empty Reviews.get, and Reviews.get_info always, sends its GET at every  *)
(* version.                                                                *)
(***************************************************************************)
C8_NoBlanketGuard ==
    /\ Done("Reviews.get") =>
          IF Supplied(call.kwargs.authors) /\ api_version < 2
          THEN Incompatible
          ELSE /\ ~RaisedHere
               /\ Len(call.requests) = 1
               /\ TheRequest.method = "GET"
               /\ TheRequest.path = "reviews"
    /\ Done("Reviews.get_info") =>
          /\ ~RaisedHere
          /\ Len(call.requests) = 1
          /\ TheRequest.method = "GET"

C8_Witness ==
    /\ Done("Reviews.get")
    /\ api_version = 1
    /\ Empty(call.kwargs.authors)
    /\ Supplied(call.kwargs.keywords)
    /\ call.outcome = "return"
    /\ Len(call.requests) = 1

(***************************************************************************)
(* C9: a method that returns gives back the value the transport returned   *)
(* for the request of that call, unmodified; a failure of the transport    *)
(* reaches the caller as it is.                                            *)
(***************************************************************************)
C9_PassThrough ==
    pc = "done" =>
        /\ call.outcome = "return" =>
              /\ call.requests # <<>>
              /\ call.requests[Len(call.requests)].response.ok
              /\ call.value = call.requests[Len(call.requests)].response.body
        /\ \A i \in 1..Len(call.requests) :
              ~call.requests[i].response.ok =>
                  /\ call.outcome = "TransportError"
                  /\ call.value = call.requests[i].response.body

C9_Witness ==
    /\ Done("Reviews.cleanup")
    /\ call.outcome = "return"
    /\ call.value = "{\"lastSeen\":12}"
    /\ TheRequest.response = [ok |-> TRUE, body |-> "{\"lastSeen\":12}"]

(***************************************************************************)
(* C10: a call that ends in SwarmError or SwarmCompatibleError has sent    *)
(* no request; a call that returns has sent exactly one.                   *)
(***************************************************************************)
C10_NoPartialFailure ==
    pc = "done" =>
        /\ RaisedHere => Len(call.requests) = 0
        /\ call.outcome = "return" => Len(call.requests) = 1

C10_Witness ==
    /\ Done("Reviews.create")
    /\ Supplied(call.kwargs.required_reviewers)
    /\ Supplied(call.kwargs.reviewer_groups)
    /\ api_version = 6
    /\ call.outcome = "SwarmCompatibleError"
    /\ Len(call.requests) = 0

(***************************************************************************)
(* Two calls of one behaviour: prev is the first, call the second, made    *)
(* with the same arguments under the same api_version.                     *)
(***************************************************************************)
SameCall ==
    /\ pc = "done"
    /\ prev # NoCall
    /\ call.op = prev.op
    /\ call.pos = prev.pos
    /\ call.kwargs = prev.kwargs

\* both calls are Groups.create calls that sent their request
BothCreated ==
    /\ SameCall
    /\ call.op = "Groups.create"
    /\ call.requests # <<>>
    /\ prev.requests # <<>>

\* a request without the response the transport gave to it
Shape(r) == [method |-> r.method, path |-> r.path, kw |-> r.kw, mapping |-> r.mapping]

(***************************************************************************)
(* C11 as stated: two Groups.create calls made with the same arguments and *)
(* the same api_version use the same body encoding.                        *)
(***************************************************************************)
C11_SameVersionSameEncoding ==
    BothCreated => call.requests[1].kw = prev.requests[1].kw

(***************************************************************************)
(* C11 as amended: two Groups.create calls made with the same arguments    *)
(* and the same api_version, to which get_version() returned the same      *)
(* apiVersions, use the same body encoding.                                *)
(***************************************************************************)
C11_SameMetadataSameEncoding ==
    (BothCreated /\ call.versions = prev.versions) =>
        call.requests[1].kw = prev.requests[1].kw

C11_Witness ==
    /\ BothCreated
    /\ call.versions = prev.versions
    /\ 11 \in call.versions[1]
    /\ ~prev.requests[1].response.ok
    /\ call.requests[1].kw = "json"
    /\ prev.requests[1].kw = "json"

(***************************************************************************)
(* C12: no call changes api_version; a call made again with the same       *)
(* arguments raises the same error or sends the same request (method,      *)
(* path, mapping, encoding) as the call before whenever get_version()      *)
(* answers the same, and a call that returns has sent its own request and  *)
(* returns the response to it, not an earlier one.                         *)
(***************************************************************************)
C12_Independent ==
    SameCall =>
        /\ (call.requests = <<>> \/ prev.requests = <<>>) =>
               /\ call.outcome = prev.outcome
               /\ call.requests = prev.requests
        /\ call.versions = prev.versions =>
               /\ Len(call.requests) = Len(prev.requests)
               /\ \A i \in 1..Len(call.requests) :
                      Shape(call.requests[i]) = Shape(prev.requests[i])
        /\ call.outcome \in {"return", "TransportError"} =>
               /\ Len(call.requests) = 1
               /\ call.value = call.requests[1].response.body

====
